---- MODULE Spec2Model ----
(***************************************************************************)
(* A model of symbolator.py: the type canonicalizer, the file filter, the  *)
(* pin classifier, section partitioning and the layout of HdlSymbol.draw.  *)
(*                                                                         *)
(* Encodings.  A Python str is a sequence of one-character strings; the    *)
(* character U+2799 is the element "U+2799".  Python's None is the value   *)
(* None below.  Lengths are counted in half units (Px), so that            *)
(* line_weight / 2.0 and dy / 2 are integers.                              *)
(***************************************************************************)
EXTENDS Integers, Sequences, FiniteSets, TLC

VARIABLES
  pc,        \* position of the modelled caller
  filename,  \* process_file: its filename argument
  language,  \* process_file: its language argument, then the local it resolves
  parsed,    \* the calls made to hdlConvertor.parse, as <<filename, language>>
  components,\* process_file: how many components it returned
  comp,      \* the Component being rendered
  comp0,     \* ghost: the Component as the parser produced it
  applied,   \* how many times reformat_array_params ran on comp
  args,      \* the command line flags title and no_type
  vsym,      \* the HdlSymbol under construction or built by make_symbol
  surf,      \* the drawing surface's font metrics
  canvas,    \* the primitives created on the canvas, counted by kind
  layout,    \* what the last HdlSymbol.draw computed
  raised     \* the exception that ended the last operation, or "none"

vars == <<pc, filename, language, parsed, components, comp, comp0, applied,
          args, vsym, surf, canvas, layout, raised>>

---------------------------------------------------------------------------
(* Strings *)

None == <<"<None>">>

ArrowChar == "U+2799"

UpperLetters == <<"A","B","C","D","E","F","G","H","I","J","K","L","M",
                  "N","O","P","Q","R","S","T","U","V","W","X","Y","Z">>
LowerLetters == <<"a","b","c","d","e","f","g","h","i","j","k","l","m",
                  "n","o","p","q","r","s","t","u","v","w","x","y","z">>
Digits == {"0","1","2","3","4","5","6","7","8","9"}

Range(s) == {s[i] : i \in DOMAIN s}

\* str.lower() on one character
LowerChar(c) ==
  IF \E i \in DOMAIN UpperLetters : UpperLetters[i] = c
  THEN LowerLetters[CHOOSE i \in DOMAIN UpperLetters : UpperLetters[i] = c]
  ELSE c

\* str.lower()
Lower(s) == [i \in 1..Len(s) |-> LowerChar(s[i])]

\* s.startswith(p) at offset i (1-based): s[i .. i+Len(p)-1] = p
MatchAt(s, p, i) ==
  /\ i >= 1
  /\ i + Len(p) - 1 <= Len(s)
  /\ \A k \in 1..Len(p) : s[i + k - 1] = p[k]

\* Python's  p in s  on two strings: p occurs in s as a substring
Contains(s, p) == \E i \in 1..(Len(s) + 1) : MatchAt(s, p, i)

\* str.rfind(c) for a one-character c, 1-based, 0 when absent
RFind(s, c) ==
  IF \E i \in 1..Len(s) : s[i] = c
  THEN CHOOSE i \in 1..Len(s) : s[i] = c /\ \A j \in (i+1)..Len(s) : s[j] # c
  ELSE 0

\* str.find(c) for a one-character c from position from, 0 when absent
FindFrom(s, c, from) ==
  IF \E i \in from..Len(s) : s[i] = c
  THEN CHOOSE i \in from..Len(s) : s[i] = c /\ \A j \in from..(i-1) : s[j] # c
  ELSE 0

RECURSIVE Replace(_, _, _)
\* str.replace(old, new): left to right, non-overlapping
Replace(s, old, new) ==
  IF Len(s) < Len(old) THEN s
  ELSE IF MatchAt(s, old, 1)
       THEN new \o Replace(SubSeq(s, Len(old) + 1, Len(s)), old, new)
       ELSE <<Head(s)>> \o Replace(Tail(s), old, new)

\* every string made of at most n of the given tokens
RECURSIVE Concats(_, _)
Concats(tokens, n) ==
  IF n = 0 THEN {<<>>}
  ELSE LET shorter == Concats(tokens, n - 1)
       IN shorter \cup {s \o t : s \in shorter, t \in tokens}

---------------------------------------------------------------------------
(* reformat_array_params *)

Downto == <<" ","d","o","w","n","t","o"," ">>
To == <<" ","t","o"," ">>

\* re.sub(r'([^(]+)\((.*)\)$', r'\1[\2]', t): the leftmost match starts at the
\* first character that is not "(" and has a "(" after it; group 1 runs to
\* that "(", group 2 from there to the closing ")" that ends the string.
ParenStart(t) ==
  IF \E i \in 1..Len(t) : t[i] # "(" /\ FindFrom(t, "(", i + 1) # 0
  THEN CHOOSE i \in 1..Len(t) :
         /\ t[i] # "(" /\ FindFrom(t, "(", i + 1) # 0
         /\ \A j \in 1..(i-1) : ~(t[j] # "(" /\ FindFrom(t, "(", j + 1) # 0)
  ELSE 0

ParenToBracket(t) ==
  LET s == ParenStart(t)
      k == FindFrom(t, "(", s + 1)
  IN IF Len(t) > 0 /\ t[Len(t)] = ")" /\ s # 0
     THEN SubSeq(t, 1, k - 1) \o <<"[">> \o SubSeq(t, k + 1, Len(t) - 1) \o <<"]">>
     ELSE t

\* pieces = t.split('['); '['.join([pieces[0], pieces[1].replace(' ', '')])
StripArraySpaces(t) ==
  LET b1 == FindFrom(t, "[", 1)
      b2 == FindFrom(t, "[", b1 + 1)
      last == IF b2 = 0 THEN Len(t) ELSE b2 - 1
  IN IF b1 = 0 THEN t
     ELSE SubSeq(t, 1, b1 - 1) \o <<"[">>
          \o Replace(SubSeq(t, b1 + 1, last), <<" ">>, <<>>)

\* the body of the loop of reformat_array_params for one data_type
ReformatType(t) ==
  IF t = None THEN None
  ELSE StripArraySpaces(ParenToBracket(
         Replace(Replace(t, Downto, <<":">>), To, <<ArrowChar>>)))

ReformatParam(p) == [p EXCEPT !.data_type = ReformatType(p.data_type)]

\* reformat_array_params(vo): the ports only
reformat_array_params(vo) ==
  [vo EXCEPT !.ports = [i \in 1..Len(vo.ports) |-> ReformatParam(vo.ports[i])]]

---------------------------------------------------------------------------
(* process_file *)

\* os.path.splitext(filename)[1]: from the last dot of the last path
\* component, unless only dots precede it there
SplitExt(p) ==
  LET sepIndex == RFind(p, "/")
      dotIndex == RFind(p, ".")
  IN IF dotIndex > sepIndex
        /\ \E i \in (sepIndex + 1)..(dotIndex - 1) : p[i] # "."
     THEN SubSeq(p, dotIndex, Len(p))
     ELSE <<>>

ExtVhdl == <<".","v","h","d","l">>
ExtVhd == <<".","v","h","d">>
ExtV == <<".","v">>
ExtSv == <<".","s","v">>

\* extension in ('.vhdl', '.vhd'): membership in a tuple
IsVhdlExt(extension) == extension \in {ExtVhdl, ExtVhd}

\* extension in ('.v'): the parentheses make no tuple, this is str in str
IsVerilogExt(extension) == Contains(ExtV, extension)

\* extension in ('.sv'): str in str again
IsSystemVerilogExt(extension) == Contains(ExtSv, extension)

\* the language process_file settles on (lines 491-497)
ResolveLanguage(fname, lang) ==
  LET extension == Lower(SplitExt(fname))
  IN IF lang = None /\ IsVhdlExt(extension) THEN <<"v","h","d","l">>
     ELSE IF lang = None /\ IsVerilogExt(extension) THEN <<"v","e","r","i","l","o","g">>
     ELSE IF lang = None /\ IsSystemVerilogExt(extension)
          THEN <<"s","y","s","t","e","m","_","v","e","r","i","l","o","g">>
     ELSE lang

---------------------------------------------------------------------------
(* Parameter, Component, Pin, PinSection *)

Parameter(name, mode, data_type) ==
  [name |-> name, mode |-> mode, data_type |-> data_type]

Component(name, ports, generics, sections) ==
  [name |-> name, ports |-> ports, generics |-> generics, sections |-> sections]

\* Pin.__init__ with its defaults
Pin(text, side, data_type) ==
  [text |-> text, side |-> side, bubble |-> FALSE, clocked |-> FALSE,
   bus |-> FALSE, bidir |-> FALSE, data_type |-> data_type]

WordChars == Range(UpperLetters) \cup Range(LowerLetters) \cup Digits \cup {"_"}
SpaceChars == {" "}

\* str.strip()
RECURSIVE LStrip(_)
LStrip(s) == IF Len(s) > 0 /\ Head(s) \in SpaceChars THEN LStrip(Tail(s)) ELSE s
RECURSIVE RStrip(_)
RStrip(s) ==
  IF Len(s) > 0 /\ s[Len(s)] \in SpaceChars THEN RStrip(SubSeq(s, 1, Len(s) - 1)) ELSE s
Strip(s) == LStrip(RStrip(s))

\* re.match(r'^(\w+)\s*\|(.*)$', name): the length of group 1 and the place
\* of the bar, or 0 when the name does not match
ClassWordLen(name) ==
  IF \E n \in 1..Len(name) : \A i \in 1..n : name[i] \in WordChars
  THEN CHOOSE n \in 1..Len(name) :
         /\ \A i \in 1..n : name[i] \in WordChars
         /\ (n = Len(name) \/ name[n + 1] \notin WordChars)
  ELSE 0
ClassBar(name) ==
  LET w == ClassWordLen(name)
  IN IF w # 0 /\ \E j \in (w + 1)..Len(name) :
                   name[j] = "|" /\ \A i \in (w + 1)..(j - 1) : name[i] \in SpaceChars
     THEN CHOOSE j \in (w + 1)..Len(name) :
            name[j] = "|" /\ \A i \in (w + 1)..(j - 1) : name[i] \in SpaceChars
     ELSE 0

ClassClocks == <<"c","l","o","c","k","s">>
ClassData == <<"d","a","t","a">>
ClassControl == <<"c","o","n","t","r","o","l">>

\* PinSection.__init__: the class tag and the label split off the name, and
\* the fill of a known class; a colour is modelled by what it was made from
PinSection(name, fill, line_color) ==
  LET bar == IF name = None THEN 0 ELSE ClassBar(name)
      label == IF bar = 0 THEN name ELSE Strip(SubSeq(name, bar + 1, Len(name)))
      cls == IF bar = 0 THEN None ELSE Lower(Strip(SubSeq(name, 1, ClassWordLen(name))))
  IN [name |-> IF bar # 0 /\ Len(label) = 0 THEN None ELSE label,
      sect_class |-> cls,
      fill |-> IF cls \in {ClassClocks, ClassData, ClassControl}
               THEN <<"class_colors", cls>> ELSE fill,
      line_color |-> line_color,
      show_name |-> TRUE,
      pins |-> <<>>]

\* PinSection.add_pin
add_pin(sect, p) == [sect EXCEPT !.pins = Append(@, p)]

---------------------------------------------------------------------------
(* make_section *)

StartsWith(s, p) == MatchAt(s, p, 1)
EndsWith(s, p) == MatchAt(s, p, Len(s) - Len(p) + 1)

ModeIn == <<"i","n">>
ModeOut == <<"o","u","t">>
ModeInout == <<"i","n","o","u","t">>
ModeInput == <<"i","n","p","u","t">>
ModeOutput == <<"o","u","t","p","u","t">>

\* pdir.lower(), then the Verilog modes converted (lines 326-332)
NormalizeMode(mode) ==
  LET pdir == Lower(mode)
  IN IF pdir = ModeInput THEN ModeIn
     ELSE IF pdir = ModeOutput THEN ModeOut
     ELSE pdir

\* a side that forgets the inout branch
PinSideNoInout(pdir, side) ==
  IF Contains(ModeIn, pdir) THEN "l"
  ELSE IF pdir \in {ModeOut} THEN "r"
  ELSE side

\* the side of the pin (lines 335-338); side is the loop's running value, and
\* pdir in ('in') is str in str
PinSide(pdir, side) ==
  IF Contains(ModeIn, pdir) THEN "l"
  ELSE IF pdir \in {ModeOut, ModeInout} THEN "r"
  ELSE side

\* (^cl(oc)?k)|(cl(oc)?k$), re.IGNORECASE, searched in the name
ClockPattern(pname) ==
  LET n == Lower(pname)
      clk == <<"c","l","k">>
      clock == <<"c","l","o","c","k">>
  IN StartsWith(n, clk) \/ StartsWith(n, clock) \/ EndsWith(n, clk) \/ EndsWith(n, clock)

\* _[nb]$, re.IGNORECASE
BubblePattern(pname) ==
  LET n == Lower(pname)
  IN EndsWith(n, <<"_","n">>) \/ EndsWith(n, <<"_","b">>)

\* a bus pattern that lost its $ anchor
BusPatternUnanchored(pname) ==
  \E i \in 1..Len(pname) : \E j \in (i + 1)..Len(pname) :
    pname[i] = "[" /\ pname[j] = "]"

\* (\[.*\]$): an opening bracket, anything, a closing bracket ending the name
BusPattern(pname) ==
  LET open == FindFrom(pname, "[", 1)
  IN open # 0 /\ open < Len(pname) /\ pname[Len(pname)] = "]"

\* '[' in p.data_type (line 324)
TypeHasBracket(data_type) == Contains(data_type, <<"[">>)

\* what the body of the loop raises for p, or "none": '[' in None is a
\* TypeError (line 324), None.lower() an AttributeError (line 326)
ParamRaises(p) ==
  IF p.data_type = None THEN "TypeError"
  ELSE IF p.mode = None THEN "AttributeError"
  ELSE "none"

\* the body of the loop for one Parameter (lines 321-358)
ClassifyPin(p, side, no_type) ==
  LET data_type == IF no_type = FALSE THEN p.data_type ELSE None
      bus == TypeHasBracket(p.data_type)
      pdir == NormalizeMode(p.mode)
      pin == Pin(p.name, PinSide(pdir, side), data_type)
  IN [pin EXCEPT !.bidir = (pdir = ModeInout),
                 !.clocked = (pdir = ModeIn /\ ClockPattern(p.name)),
                 !.bubble = BubblePattern(p.name),
                 !.bus = (bus \/ BusPattern(p.name))]

RECURSIVE SectionLoop(_, _, _, _)
SectionLoop(sect, sect_pins, side, no_type) ==
  IF sect_pins = <<>> THEN [sect |-> sect, raised |-> "none"]
  ELSE LET p == Head(sect_pins)
       IN IF ParamRaises(p) # "none"
          THEN [sect |-> sect, raised |-> ParamRaises(p)]
          ELSE LET pin == ClassifyPin(p, side, no_type)
               IN SectionLoop(add_pin(sect, pin), Tail(sect_pins), pin.side, no_type)

Black == <<0, 0, 0>>

\* make_section: the section, or the exception that ended it
make_section(sname, sect_pins, fill, no_type) ==
  SectionLoop(PinSection(sname, fill, Black), sect_pins, "l", no_type)

---------------------------------------------------------------------------
(* make_symbol *)

LineWeight == 3
SymbolSpacing == 10
WidthSteps == 20

\* Symbol.__init__
Symbol(sections, line_color) ==
  [sections |-> sections, line_weight |-> LineWeight, line_color |-> line_color]

\* HdlSymbol.__init__
HdlSymbol(component, symbols, symbol_spacing, width_steps) ==
  [component |-> component, symbols |-> symbols,
   symbol_spacing |-> symbol_spacing, width_steps |-> width_steps]

\* a marker that starts a section without asking whether one is open
StartsSectionAlways(i, markers, cur_sect) == i \in DOMAIN markers

\* i in comp.sections and len(cur_sect) > 0 (line 383)
StartsSection(i, markers, cur_sect) == i \in DOMAIN markers /\ Len(cur_sect) > 0

RECURSIVE PartitionLoop(_, _, _, _, _, _)
\* the loop of lines 382-387 from index i (0-based) on, then lines 389-390
PartitionLoop(ports, markers, i, cur_sect, sections, sect_name) ==
  IF i >= Len(ports)
  THEN IF Len(cur_sect) > 0 THEN Append(sections, <<sect_name, cur_sect>>) ELSE sections
  ELSE IF StartsSection(i, markers, cur_sect)
       THEN PartitionLoop(ports, markers, i + 1, <<ports[i + 1]>>,
                          Append(sections, <<sect_name, cur_sect>>), markers[i])
       ELSE PartitionLoop(ports, markers, i + 1, Append(cur_sect, ports[i + 1]),
                          sections, sect_name)

\* lines 379-390: the ports broken into <<name, ports>> pairs
BreakIntoSections(ports, markers) ==
  PartitionLoop(ports, markers, 0, <<>>, <<>>,
                IF 0 \in DOMAIN markers THEN markers[0] ELSE None)

RECURSIVE AddSections(_, _, _, _)
\* lines 392-394: a section made of each pair and added to psym; the k-th
\* fill is the k-th colour of the colour sequence
AddSections(psym, sections, k, no_type) ==
  IF k > Len(sections) THEN [sym |-> psym, raised |-> "none"]
  ELSE LET s == make_section(sections[k][1], sections[k][2], <<"color_seq", k>>, no_type)
       IN IF s.raised # "none" THEN [sym |-> psym, raised |-> s.raised]
          ELSE AddSections([psym EXCEPT !.sections = Append(@, s.sect)],
                           sections, k + 1, no_type)

Grey200 == <<200, 200, 200>>
Grey100 == <<100, 100, 100>>

\* make_symbol(comp, title, no_type): the HdlSymbol, or the exception raised
make_symbol(c, title, no_type) ==
  LET vsym0 == HdlSymbol(IF title = FALSE THEN None ELSE c.name, <<>>,
                         SymbolSpacing, WidthSteps)
      g == make_section(None, c.generics, Grey200, no_type)
      gsym == Symbol(<<[g.sect EXCEPT !.line_color = Grey100]>>, Grey100)
      vsym1 == IF Len(c.generics) > 0
               THEN [vsym0 EXCEPT !.symbols = Append(@, gsym)] ELSE vsym0
      p == AddSections(Symbol(<<>>, Black), BreakIntoSections(c.ports, c.sections),
                       1, no_type)
  IN IF Len(c.generics) > 0 /\ g.raised # "none"
     THEN [vsym |-> vsym0, raised |-> g.raised]
     ELSE IF Len(c.ports) > 0 /\ p.raised # "none"
          THEN [vsym |-> vsym1, raised |-> p.raised]
          ELSE [vsym |-> IF Len(c.ports) > 0
                         THEN [vsym1 EXCEPT !.symbols = Append(@, p.sym)] ELSE vsym1,
                raised |-> "none"]

---------------------------------------------------------------------------
(* Layout: Pin.text_width, PinSection.min_width and draw, Symbol.draw,    *)
(* HdlSymbol.draw                                                          *)

PinPadding == 10
SectSpacing == 20
SectPadding == 5

\* n source units, and n / 2 source units, in half units
Px(n) == 2 * n
HalfPx(n) == n

Max2(a, b) == IF a >= b THEN a ELSE b
SetMax(S) == CHOOSE m \in S : \A n \in S : n <= m
SetMin(S) == CHOOSE m \in S : \A n \in S : m <= n

\* Python's truth value of an optional string
Truthy(s) == s # None /\ Len(s) > 0

\* abs(x1 - x0) of c.surf.text_bbox(text, font): a surface with a fixed advance
TextBBoxWidth(sf, text) == sf.char_w * Len(text)
\* y1 - y0 of c.surf.text_bbox(name, title_font)
TextBBoxHeight(sf, text) == sf.title_h
\* bb[3] - bb[1] of the bbox of the group a section was drawn into: the
\* height of the section's rectangle and what the surface adds to it (nothing
\* when sections abut)
GroupBBoxHeight(sf, sb) == sb[4] - sb[2] + sf.bbox_extra

\* Pin.text_width
text_width(pin, sf) == Px(PinPadding) + TextBBoxWidth(sf, pin.text)

left_pins(sect) == SelectSeq(sect.pins, LAMBDA p : p.side = "l")
right_pins(sect) == SelectSeq(sect.pins, LAMBDA p : p.side = "r")
rows(sect) == Max2(Len(left_pins(sect)), Len(right_pins(sect)))

\* max(tw.text_width(...) for tw in pins), 0 on the ValueError of no pins
MaxTextWidth(pins, sf) ==
  IF pins = <<>> THEN 0
  ELSE SetMax({text_width(pins[i], sf) : i \in 1..Len(pins)})

\* PinSection.min_width
min_width(sect, sf) ==
  LET lmax0 == MaxTextWidth(left_pins(sect), sf)
      rmax0 == MaxTextWidth(right_pins(sect), sf)
      name_width == Px(SectPadding) + TextBBoxWidth(sf, sect.name)
      lmax == IF sect.name # None /\ lmax0 > 0 THEN Max2(lmax0, name_width) ELSE lmax0
      rmax == IF sect.name # None /\ ~(lmax0 > 0) THEN Max2(rmax0, name_width) ELSE rmax0
  IN lmax + rmax + Px(SectPadding)

\* the primitives created on a canvas, counted by kind
Shapes(g, r, t, l) == [group |-> g, rectangle |-> r, text |-> t, line |-> l]
NoShapes == Shapes(0, 0, 0, 0)
AddShapes(a, b) ==
  Shapes(a.group + b.group, a.rectangle + b.rectangle, a.text + b.text, a.line + b.line)
RECURSIVE SumShapes(_)
SumShapes(seq) == IF seq = <<>> THEN NoShapes ELSE AddShapes(Head(seq), SumShapes(Tail(seq)))

\* Pin.draw: a group, the whisker, the label and, with a type, its text
PinShapes(pin) == Shapes(1, 0, IF Truthy(pin.data_type) THEN 2 ELSE 1, 1)

\* PinSection.draw: the title offset, top and bot, the box it returns
TitleOffset(sect, sf) ==
  IF sect.show_name /\ Truthy(sect.name) THEN TextBBoxHeight(sf, sect.name) ELSE 0
SectTop(sect) == 0 - HalfPx(SectSpacing) - Px(SectPadding)
SectBot(sect, sf) ==
  TitleOffset(sect, sf) - HalfPx(SectSpacing) + rows(sect) * Px(SectSpacing)
    + Px(SectPadding)
SectionBox(sect, x, y, width, sf) ==
  <<x, y + SectTop(sect), x + width, y + SectBot(sect, sf)>>
SectionShapes(sect) ==
  AddShapes(Shapes(1, 1, IF sect.show_name /\ sect.name # None THEN 1 ELSE 0, 0),
            SumShapes([i \in 1..Len(sect.pins) |-> PinShapes(sect.pins[i])]))

RECURSIVE SectionBoxes(_, _, _, _, _, _)
\* the loop of Symbol.draw (lines 262-268): each section's box, yoff advanced
\* by the height of the bbox of its group
SectionBoxes(sections, k, x, yoff, width, sf) ==
  IF k > Len(sections) THEN <<>>
  ELSE LET sb == SectionBox(sections[k], x, yoff, width, sf)
       IN <<sb>> \o SectionBoxes(sections, k + 1, x, yoff + GroupBBoxHeight(sf, sb),
                                 width, sf)

\* an inset of the whole half stroke
OutlineInsetHalfWeight(line_weight) == HalfPx(line_weight)

\* hw = self.line_weight / 2.0 - 0.5 (line 272)
OutlineInset(line_weight) == HalfPx(line_weight) - HalfPx(1)

\* the outline of all sections (lines 273-277)
Outline(sect_boxes, hw) ==
  LET idx == 1..Len(sect_boxes)
  IN <<SetMin({sect_boxes[i][1] : i \in idx}) + hw,
       SetMin({sect_boxes[i][2] : i \in idx}) + hw,
       SetMax({sect_boxes[i][3] : i \in idx}) - hw,
       SetMax({sect_boxes[i][4] : i \in idx}) - hw>>

\* Symbol.draw(x, y, c, sym_width); has_width is sym_width is not None.  With
\* no section, max() of nothing is a ValueError and sect_boxes[0] an IndexError.
SymbolDraw(sym, x, y, has_width, sym_width, sf) ==
  LET n == Len(sym.sections)
      width == IF has_width THEN sym_width
               ELSE SetMax({min_width(sym.sections[k], sf) : k \in 1..n})
      boxes == SectionBoxes(sym.sections, 1, x, y, width, sf)
      drawn == SumShapes([k \in 1..n |-> SectionShapes(sym.sections[k])])
  IN IF ~has_width /\ n = 0
     THEN [raised |-> "ValueError", width |-> 0, sect_boxes |-> <<>>,
           bbox |-> <<>>, shapes |-> NoShapes]
     ELSE IF n = 0
     THEN [raised |-> "IndexError", width |-> width, sect_boxes |-> <<>>,
           bbox |-> <<>>, shapes |-> NoShapes]
     ELSE [raised |-> "none", width |-> width, sect_boxes |-> boxes,
           bbox |-> Outline(boxes, OutlineInset(sym.line_weight)),
           shapes |-> AddShapes(drawn, Shapes(0, 1, 0, 0))]

\* every section of every symbol
RECURSIVE AllSections(_)
AllSections(symbols) ==
  IF symbols = <<>> THEN <<>> ELSE Head(symbols).sections \o AllSections(Tail(symbols))

\* a width rounded down to the quantum
RoundWidthDown(w, width_steps) == (w \div width_steps) * width_steps

\* sym_width = (sym_width // self.width_steps + 1) * self.width_steps (line 302)
RoundWidth(w, width_steps) == (w \div width_steps + 1) * width_steps

RECURSIVE DrawSymbols(_, _, _, _, _, _, _)
\* the loop of HdlSymbol.draw (lines 305-313) from symbol i on
DrawSymbols(h, i, x, y, yoff, sym_width, sf) ==
  IF i > Len(h.symbols) THEN [raised |-> "none", symbols |-> <<>>, shapes |-> NoShapes]
  ELSE LET r == SymbolDraw(h.symbols[i], x, y + yoff, TRUE, sym_width, sf)
           title == IF i = 1 /\ Truthy(h.component)
                    THEN Shapes(0, 0, 1, 0) ELSE NoShapes
           rest == DrawSymbols(h, i + 1, x, y,
                               yoff + (r.bbox[4] - r.bbox[2]) + Px(h.symbol_spacing),
                               sym_width, sf)
       IN IF r.raised # "none"
          THEN [raised |-> r.raised, symbols |-> <<r>>, shapes |-> r.shapes]
          ELSE [raised |-> rest.raised, symbols |-> <<r>> \o rest.symbols,
                shapes |-> AddShapes(AddShapes(r.shapes, title), rest.shapes)]

NoLayout == [raised |-> "none", sym_width |-> 0, symbols |-> <<>>, shapes |-> NoShapes]

\* HdlSymbol.draw(x, y, c)
HdlDraw(h, x, y, sf) ==
  LET all == AllSections(h.symbols)
      widest == SetMax({min_width(all[k], sf) : k \in 1..Len(all)})
      sym_width == RoundWidth(widest, Px(h.width_steps))
      d == DrawSymbols(h, 1, x, y, y, sym_width, sf)
  IN IF all = <<>>
     THEN [NoLayout EXCEPT !.raised = "ValueError"]
     ELSE [raised |-> d.raised, sym_width |-> sym_width, symbols |-> d.symbols,
           shapes |-> d.shapes]

---------------------------------------------------------------------------
(* Bounds and input sets *)

MaxPorts == 3
MaxPrefix == 1
MaxSectPorts == 3
MaxTypePorts == 1
MaxGenerics == 1
MaxFileTokens == 3
MaxTypeTokens == 4
MaxApply == 2
MaxEntities == 1
MaxSymbols == 2
MaxSections == 2
MaxPins == 2

\* every sequence over S of length at most n
RECURSIVE SeqsUpTo(_, _)
SeqsUpTo(S, n) ==
  IF n = 0 THEN {<<>>}
  ELSE LET shorter == SeqsUpTo(S, n - 1)
       IN shorter \cup {Append(q, e) : q \in shorter, e \in S}

Surfaces ==
  { [char_w |-> 7, title_h |-> 27, bbox_extra |-> 0],
    [char_w |-> 5, title_h |-> 24, bbox_extra |-> 3] }

CompName == <<"e","n","t">>
TypeT == <<"t">>

ModeChoices ==
  { ModeIn, <<"I","N">>, ModeOut, ModeInout, <<"I","n","O","u","t">>, ModeInput,
    <<"O","u","t","p","u","t">>, <<"b","u","f","f","e","r">> }

NameChoices ==
  { <<"c","l","k">>, <<"d","_","n">>, <<"q","[","0","]">>,
    <<"q","[","0","]","_","B">>, <<"C","L","K","[","1","]">> }

TypeChoices ==
  { None, TypeT, <<"t","[","1","]">>, <<"t","[">>,
    <<"t","(","1"," ","d","o","w","n","t","o"," ","0",")">> }

RawTypes ==
  { None, TypeT, <<"t","[","1","]">>,
    <<"t","(","1"," ","d","o","w","n","t","o"," ","0",")">>,
    <<"t","(","0"," ","t","o"," ","1",")">> }

MarkerChoices == { None, <<"A">>, <<"c","l","o","c","k","s","|","B">> }

PortNames == << <<"a">>, <<"b">>, <<"c">>, <<"d">>, <<"e">> >>

\* the tokens type strings and file names are made of
TypeTokens == { <<"a">>, <<" ">>, <<"(">>, <<")">>, <<"[">>, <<"]">>, To, Downto }
FileTokens ==
  { <<"a">>, <<".">>, <<"/">>, <<"v">>, <<"s">>, <<"V">>, <<"s","v">>,
    <<"v","h","d">>, <<"v","h","d","l">>, <<"t","x","t">> }

\* ports that differ in mode only
ModePorts ==
  { [i \in 1..Len(ms) |-> Parameter(PortNames[1], ms[i], TypeT)] :
      ms \in SeqsUpTo(ModeChoices, MaxPorts) }

\* one port of every name, mode and type, after a few plain ports
PlainParams == { Parameter(PortNames[1], ModeIn, TypeT), Parameter(PortNames[2], ModeOut, TypeT) }
ClassPorts ==
  { Append(pre, Parameter(n, m, t)) :
      pre \in SeqsUpTo(PlainParams, MaxPrefix),
      n \in NameChoices, m \in {ModeIn, ModeOut, ModeInout}, t \in TypeChoices }

\* the first n distinct plain ports
DistinctPorts(n) ==
  [i \in 1..n |-> Parameter(PortNames[i], IF i % 2 = 1 THEN ModeIn ELSE ModeOut, TypeT)]

\* every mapping from some of the indexes 0..n to a marker
MarkerMaps(n) ==
  UNION { [D -> MarkerChoices] : D \in SUBSET (0..n) }

TypedParams(name, mode, n) ==
  { [i \in 1..Len(ts) |-> Parameter(name, mode, ts[i])] : ts \in SeqsUpTo(RawTypes, n) }

NoMarkers == <<>>

Flags(titles, no_types) == [title : titles, no_type : no_types]

\* the component and flags of one render
Run(c, a) == [comp |-> c, args |-> a]

Runs ==
       { Run(Component(CompName, ps, <<>>, NoMarkers), a) :
           ps \in ModePorts, a \in Flags({FALSE}, {FALSE}) }
  \cup { Run(Component(CompName, ps, <<>>, NoMarkers), a) :
           ps \in ClassPorts, a \in Flags({FALSE}, BOOLEAN) }
  \cup { Run(Component(CompName, DistinctPorts(n), <<>>, m), a) :
           n \in 0..MaxSectPorts, m \in MarkerMaps(MaxSectPorts),
           a \in Flags({FALSE}, {FALSE}) }
  \cup { Run(Component(CompName, ps, gs, NoMarkers), a) :
           ps \in TypedParams(PortNames[1], ModeOut, MaxTypePorts),
           gs \in TypedParams(<<"g">>, ModeIn, MaxGenerics),
           a \in Flags(BOOLEAN, BOOLEAN) }

Idle ==
  /\ filename = <<>> /\ language = None /\ parsed = <<>> /\ components = 0
  /\ applied = 0 /\ canvas = NoShapes /\ layout = NoLayout /\ raised = "none"

NoArgs == [title |-> FALSE, no_type |-> FALSE]
NoSymbol == HdlSymbol(None, <<>>, SymbolSpacing, WidthSteps)
NoComponent == Component(<<>>, <<>>, <<>>, NoMarkers)

---------------------------------------------------------------------------
(* main: the render of one component (lines 555-577) *)

Init ==
  /\ Idle
  /\ pc = "reformat"
  /\ \E r \in Runs : comp = r.comp /\ args = r.args
  /\ comp0 = comp
  /\ vsym = NoSymbol
  /\ surf \in Surfaces

\* reformat_array_params(comp) (line 556)
MainReformat ==
  /\ pc = "reformat"
  /\ comp' = reformat_array_params(comp)
  /\ applied' = applied + 1
  /\ pc' = "make_symbol"
  /\ UNCHANGED <<filename, language, parsed, components, comp0, args, vsym, surf,
                 canvas, layout, raised>>

\* nc.clear_shapes(); sym = make_symbol(comp, args.title, args.no_type)
MainMakeSymbol ==
  /\ pc = "make_symbol"
  /\ LET r == make_symbol(comp, args.title, args.no_type)
     IN /\ raised' = r.raised
        /\ vsym' = IF r.raised = "none" THEN r.vsym ELSE vsym
        /\ pc' = IF r.raised = "none" THEN "draw" ELSE "error"
  /\ canvas' = NoShapes
  /\ UNCHANGED <<filename, language, parsed, components, comp, comp0, applied, args,
                 surf, layout>>

\* sym.draw(0, 0, nc) (line 575)
MainDraw ==
  /\ pc = "draw"
  /\ LET d == HdlDraw(vsym, 0, 0, surf)
     IN /\ layout' = d
        /\ canvas' = AddShapes(canvas, d.shapes)
        /\ raised' = d.raised
        /\ pc' = IF d.raised = "none" THEN "render" ELSE "error"
  /\ UNCHANGED <<filename, language, parsed, components, comp, comp0, applied, args,
                 vsym, surf>>

\* nc.render() (line 577)
MainRender ==
  /\ pc = "render"
  /\ pc' = "done"
  /\ UNCHANGED <<filename, language, parsed, components, comp, comp0, applied, args,
                 vsym, surf, canvas, layout, raised>>

Next == MainReformat \/ MainMakeSymbol \/ MainDraw \/ MainRender

Spec == Init /\ [][Next]_vars

---------------------------------------------------------------------------
(* reformat_array_params applied to one port type, again and again *)

TypeStrings == Concats(TypeTokens, MaxTypeTokens) \cup {None}

InitCanon ==
  /\ Idle
  /\ pc = "canon"
  /\ \E t \in TypeStrings :
       comp = Component(CompName, <<Parameter(PortNames[1], ModeIn, t)>>, <<>>, NoMarkers)
  /\ comp0 = comp
  /\ args = NoArgs
  /\ vsym = NoSymbol
  /\ surf \in Surfaces

Reformat ==
  /\ pc = "canon"
  /\ applied < MaxApply
  /\ comp' = reformat_array_params(comp)
  /\ applied' = applied + 1
  /\ UNCHANGED <<pc, filename, language, parsed, components, comp0, args, vsym, surf,
                 canvas, layout, raised>>

NextCanon == Reformat

SpecCanon == InitCanon /\ [][NextCanon]_vars

---------------------------------------------------------------------------
(* process_file *)

\* the paths of files: the last component holds more than dots
FileNames ==
  { f \in Concats(FileTokens, MaxFileTokens) :
      \E i \in (RFind(f, "/") + 1)..Len(f) : f[i] # "." }
LangVhdl == <<"v","h","d","l">>

InitFile ==
  /\ pc = "process_file"
  /\ filename \in FileNames
  /\ language \in {None, LangVhdl}
  /\ parsed = <<>> /\ components = 0
  /\ applied = 0 /\ canvas = NoShapes /\ layout = NoLayout /\ raised = "none"
  /\ comp = NoComponent /\ comp0 = NoComponent
  /\ args = NoArgs
  /\ vsym = NoSymbol
  /\ surf \in Surfaces

\* process_file(filename, language): with no language settled it returns [];
\* otherwise the parser is called and one Component is built of each entity
\* it returns
ProcessFile ==
  /\ pc = "process_file"
  /\ LET lang == ResolveLanguage(filename, language)
     IN IF lang = None
        THEN parsed' = parsed /\ components' = 0
        ELSE /\ parsed' = Append(parsed, <<filename, lang>>)
             /\ \E entities \in 0..MaxEntities : components' = entities
  /\ pc' = "returned"
  /\ UNCHANGED <<filename, language, comp, comp0, applied, args, vsym, surf, canvas,
                 layout, raised>>

NextFile == ProcessFile

SpecFile == InitFile /\ [][NextFile]_vars

---------------------------------------------------------------------------
(* An HdlSymbol put together by add_symbol, add_section and add_pin, then  *)
(* drawn                                                                   *)

StepChoices == {WidthSteps, 15}
PinChoices == { << <<>>, "l" >>, << <<"a","b">>, "l" >>, << <<"a","b","c">>, "r" >> }
SectionNames == { None, <<"A">> }
DrawPoints == { <<0, 0>>, <<4, 6>> }

CountSections(h) == Len(AllSections(h.symbols))
RECURSIVE CountPinsOf(_)
CountPinsOf(sections) ==
  IF sections = <<>> THEN 0 ELSE Len(Head(sections).pins) + CountPinsOf(Tail(sections))
CountPins(h) == CountPinsOf(AllSections(h.symbols))

InitLayout ==
  /\ Idle
  /\ pc = "build"
  /\ comp = NoComponent /\ comp0 = NoComponent
  /\ args = NoArgs
  /\ \E ws \in StepChoices : vsym = HdlSymbol(None, <<>>, SymbolSpacing, ws)
  /\ surf \in Surfaces

\* HdlSymbol.add_symbol(Symbol())
AddSymbol ==
  /\ pc = "build"
  /\ Len(vsym.symbols) < MaxSymbols
  /\ vsym' = [vsym EXCEPT !.symbols = Append(@, Symbol(<<>>, Black))]
  /\ UNCHANGED <<pc, filename, language, parsed, components, comp, comp0, applied,
                 args, surf, canvas, layout, raised>>

\* Symbol.add_section(PinSection(name)) on the last symbol
AddSection ==
  /\ pc = "build"
  /\ Len(vsym.symbols) > 0
  /\ CountSections(vsym) < MaxSections
  /\ \E name \in SectionNames :
       vsym' = [vsym EXCEPT !.symbols[Len(vsym.symbols)].sections =
                              Append(@, PinSection(name, None, Black))]
  /\ UNCHANGED <<pc, filename, language, parsed, components, comp, comp0, applied,
                 args, surf, canvas, layout, raised>>

\* PinSection.add_pin(Pin(text, side)) on the last section of the last symbol
AddPin ==
  /\ pc = "build"
  /\ Len(vsym.symbols) > 0
  /\ Len(vsym.symbols[Len(vsym.symbols)].sections) > 0
  /\ CountPins(vsym) < MaxPins
  /\ \E p \in PinChoices :
       LET i == Len(vsym.symbols)
           j == Len(vsym.symbols[i].sections)
       IN vsym' = [vsym EXCEPT !.symbols[i].sections[j] = add_pin(@, Pin(p[1], p[2], None))]
  /\ UNCHANGED <<pc, filename, language, parsed, components, comp, comp0, applied,
                 args, surf, canvas, layout, raised>>

\* HdlSymbol.draw(x, y, c)
DrawHdlSymbol ==
  /\ pc = "build"
  /\ \E pt \in DrawPoints :
       LET d == HdlDraw(vsym, pt[1], pt[2], surf)
       IN /\ layout' = d
          /\ canvas' = AddShapes(canvas, d.shapes)
          /\ raised' = d.raised
  /\ pc' = "drawn"
  /\ UNCHANGED <<filename, language, parsed, components, comp, comp0, applied, args,
                 vsym, surf>>

\* Symbol.draw(x, y, c) on the last symbol, with no width given
DrawSymbol ==
  /\ pc = "build"
  /\ Len(vsym.symbols) > 0
  /\ \E pt \in DrawPoints :
       LET r == SymbolDraw(vsym.symbols[Len(vsym.symbols)], pt[1], pt[2], FALSE, 0, surf)
       IN /\ layout' = [raised |-> r.raised, sym_width |-> 0, symbols |-> <<r>>,
                        shapes |-> r.shapes]
          /\ canvas' = AddShapes(canvas, r.shapes)
          /\ raised' = r.raised
  /\ pc' = "drawn_symbol"
  /\ UNCHANGED <<filename, language, parsed, components, comp, comp0, applied, args,
                 vsym, surf>>

NextLayout == AddSymbol \/ AddSection \/ AddPin \/ DrawHdlSymbol \/ DrawSymbol

SpecLayout == InitLayout /\ [][NextLayout]_vars

---------------------------------------------------------------------------
(* Properties *)

AllParams(c) == c.generics \o c.ports
RECURSIVE PinsOf(_)
PinsOf(sections) ==
  IF sections = <<>> THEN <<>> ELSE Head(sections).pins \o PinsOf(Tail(sections))
AllPins(h) == PinsOf(AllSections(h.symbols))

\* make_symbol returned
MadeSymbol ==
  \/ pc \in {"draw", "render", "done"}
  \/ pc = "error" /\ raised \in {"ValueError", "IndexError"}

ValidMode(mode) == Lower(mode) \in {ModeIn, ModeInput, ModeOut, ModeOutput, ModeInout}
ExpectedSide(mode) == IF Lower(mode) \in {ModeIn, ModeInput} THEN "l" ELSE "r"

\* C5: every pin made of a Parameter whose mode is in, out or inout (any
\* letter case, input and output included) is on the left for in and on the
\* right for out and inout, whatever Parameters precede it, and stays there
\* through the draw and the render that follow.
C5_SideFromOwnMode ==
  MadeSymbol =>
    LET ps == AllParams(comp)
        pins == AllPins(vsym)
    IN /\ Len(pins) = Len(ps)
       /\ \A i \in 1..Len(ps) :
            ValidMode(ps[i].mode) => pins[i].side = ExpectedSide(ps[i].mode)

C5_Witness ==
  /\ pc = "done"
  /\ Len(comp.ports) = 3
  /\ comp.ports[1].mode = <<"O","u","t","p","u","t">>
  /\ comp.ports[2].mode = <<"I","N">>
  /\ comp.ports[3].mode = <<"I","n","O","u","t">>
  /\ AllPins(vsym)[2].side = "l"

HasOpenBracket(t) == \E i \in 1..Len(t) : t[i] = "["
TrailingBracketIndex(n) ==
  /\ Len(n) >= 2
  /\ n[Len(n)] = "]"
  /\ \E i \in 1..(Len(n) - 1) : n[i] = "["

RECURSIVE SectionStart(_, _)
SectionStart(secs, k) ==
  IF k <= 1 THEN 0 ELSE SectionStart(secs, k - 1) + Len(secs[k - 1].pins)

\* the section carries the label and class that marker m stands for
Labelled(sect, m) ==
  /\ sect.name = PinSection(m, None, Black).name
  /\ sect.sect_class = PinSection(m, None, Black).sect_class

\* C7: the sections of the ports symbol are non-empty runs of the ports, in
\* order and complete; a section starts at index i > 0 exactly where i has a
\* marker and is labelled by it; the first is labelled by the marker at 0, if
\* any.
C7_SectionsAsDeclared ==
  (MadeSymbol /\ Len(comp.ports) > 0) =>
    LET secs == vsym.symbols[Len(vsym.symbols)].sections
        n == Len(comp.ports)
        m == comp.sections
        pins == PinsOf(secs)
    IN /\ Len(secs) >= 1
       /\ \A k \in 1..Len(secs) : Len(secs[k].pins) > 0
       /\ Len(pins) = n
       /\ \A i \in 1..n : pins[i].text = comp.ports[i].name
       /\ \A i \in 1..(n - 1) :
            (i \in DOMAIN m) <=> (\E k \in 2..Len(secs) : SectionStart(secs, k) = i)
       /\ \A k \in 2..Len(secs) :
            /\ SectionStart(secs, k) \in DOMAIN m
            /\ Labelled(secs[k], m[SectionStart(secs, k)])
       /\ Labelled(secs[1], IF 0 \in DOMAIN m THEN m[0] ELSE None)

C7_Witness ==
  /\ pc = "done"
  /\ Len(comp.ports) = 3
  /\ DOMAIN comp.sections = {0, 2, 3}
  /\ comp.sections[0] = <<"A">>
  /\ comp.sections[2] = <<"c","l","o","c","k","s","|","B">>
  /\ Len(vsym.symbols[1].sections) = 2
  /\ Len(vsym.symbols[1].sections[1].pins) = 2

\* C2 as claimed: a component with no generic and no port is made into a
\* symbol and drawn without an exception and without a primitive on the canvas.
C2_EmptyDrawsNothing ==
  (Len(comp.ports) = 0 /\ Len(comp.generics) = 0 /\ pc \in {"render", "done", "error"})
    => (raised = "none" /\ canvas = NoShapes)

\* C9 as claimed: when make_symbol is about to run, the type of every port
\* and of every generic is the canonical form of the type the parser gave.
C9_AllTypesCanonicalized ==
  pc = "make_symbol" =>
    /\ \A i \in 1..Len(comp.ports) :
         comp.ports[i].data_type = ReformatType(comp0.ports[i].data_type)
    /\ \A i \in 1..Len(comp.generics) :
         comp.generics[i].data_type = ReformatType(comp0.generics[i].data_type)

WellFormedParam(p) == p.mode \in {ModeIn, ModeOut, ModeInout}

\* C10 as claimed: for Parameters with a mode of in, out or inout and a
\* data_type that is a string or None, classification raises nothing and
\* makes one pin of each.
C10_ClassificationTotal ==
  ( /\ pc \notin {"reformat", "make_symbol"}
    /\ \A i \in 1..Len(AllParams(comp)) : WellFormedParam(AllParams(comp)[i]) )
    => /\ raised \notin {"TypeError", "AttributeError"}
       /\ Len(AllPins(vsym)) = Len(AllParams(comp))

\* C4 as claimed: once reformat_array_params has run, running it again
\* changes nothing.
C4_Idempotent == applied >= 1 => reformat_array_params(comp) = comp

RecognizedExts == {ExtVhdl, ExtVhd, ExtV, ExtSv}

\* C8 as claimed: with no language given, a file whose lower-cased extension
\* is none of .vhdl, .vhd, .v, .sv yields no component and no parser call.
C8_UnrecognizedSkipped ==
  ( /\ pc = "returned"
    /\ language = None
    /\ Lower(SplitExt(filename)) \notin RecognizedExts )
    => (parsed = <<>> /\ components = 0 /\ raised = "none")

\* C1: the width HdlSymbol.draw hands to its symbols is a positive multiple
\* of the width quantum and at least the min_width of every section.
C1_SharedWidth ==
  (pc = "drawn" /\ AllSections(vsym.symbols) # <<>>) =>
    LET all == AllSections(vsym.symbols)
        w == layout.sym_width
        q == Px(vsym.width_steps)
    IN /\ w > 0
       /\ w % q = 0
       /\ \A k \in 1..Len(all) : w >= min_width(all[k], surf)
       /\ Len(layout.symbols) >= 1
       /\ \A i \in 1..Len(layout.symbols) : layout.symbols[i].width = w

C1_Witness ==
  /\ pc = "drawn"
  /\ raised = "none"
  /\ Len(vsym.symbols) = 2
  /\ LET all == AllSections(vsym.symbols)
         widest == SetMax({min_width(all[k], surf) : k \in 1..Len(all)})
     IN /\ widest % Px(vsym.width_steps) = 0
        /\ layout.sym_width = widest + Px(vsym.width_steps)
        /\ \E k \in 1..Len(all) : min_width(all[k], surf) < widest

\* the smallest box holding every box of boxes
BoxUnion(boxes) ==
  LET idx == 1..Len(boxes)
      least(c) == CHOOSE v \in {boxes[i][c] : i \in idx} : \A i \in idx : v <= boxes[i][c]
      most(c) == CHOOSE v \in {boxes[i][c] : i \in idx} : \A i \in idx : v >= boxes[i][c]
  IN <<least(1), least(2), most(3), most(4)>>
Inset(b, d) == <<b[1] + d, b[2] + d, b[3] - d, b[4] - d>>

\* C3 as claimed: the box Symbol.draw returns is the union of its sections'
\* boxes inset on every side by half the outline stroke weight.
C3_InsetHalfStroke ==
  \A i \in 1..Len(layout.symbols) :
    layout.symbols[i].raised = "none" =>
      layout.symbols[i].bbox =
        Inset(BoxUnion(layout.symbols[i].sect_boxes), HalfPx(LineWeight))

\* C3 as amended: the inset is half the outline stroke weight less half a
\* unit (line_weight / 2 - 0.5).
C3_InsetHalfStrokeLessHalfUnit ==
  \A i \in 1..Len(layout.symbols) :
    layout.symbols[i].raised = "none" =>
      layout.symbols[i].bbox =
        Inset(BoxUnion(layout.symbols[i].sect_boxes), HalfPx(LineWeight) - HalfPx(1))

C3_Witness ==
  /\ pc \in {"drawn", "drawn_symbol"}
  /\ \E i \in 1..Len(layout.symbols) :
       /\ layout.symbols[i].raised = "none"
       /\ Len(layout.symbols[i].sect_boxes) = 2
       /\ layout.symbols[i].sect_boxes[1][4] < layout.symbols[i].sect_boxes[2][4]

====
